---- MODULE Spec2Model ----
(***************************************************************************)
(* A model of the scheduling engine of src/solver/app.py:                  *)
(* pre-validation, option generation, the 0/1 constraint model and its     *)
(* objective, the solver call, infeasibility diagnosis and result assembly.*)
(*                                                                         *)
(* One behaviour is one call of _solve_schedule.  Init draws the           *)
(* SchedulingInput from bounded families; the actions are the stages of    *)
(* the call.  Fields the engine never reads (course_id, section_code,      *)
(* enrollment_cap, tags, building, start_time, end_time, slots_required,   *)
(* allowed_days, reason, unavailable_times) are left out of the records.   *)
(* The id of a section, instructor, room, timeslot, pattern and group is   *)
(* a key: the families hold no two entities of a kind with one id.         *)
(*                                                                         *)
(* An Optional field is None (<<>>) or Some(v) (<<v>>).  A float (the      *)
(* soft-lock weight, the reported scores) is a whole number of             *)
(* 1/WeightScale units.                                                    *)
(***************************************************************************)
EXTENDS Integers, Sequences, FiniteSets, TLC

VARIABLES input, pc, errors, options_by_section, solver, result

vars == <<input, pc, errors, options_by_section, solver, result>>

-----------------------------------------------------------------------------
(* Bounds of the input families *)

MaxEnroll == 3
MaxWeightUnits == 5

(* Program constants *)

ROOM_WASTE_WEIGHT == 1
PREF_DAY_WEIGHT == 10
PREF_PATTERN_WEIGHT == 5
ADJUNCT_DAY_EXCESS_WEIGHT == 15
SOFT_LOCK_BASE_WEIGHT == 1

(* Resolution of a float: a float f is the integer f * WeightScale *)
WeightScale == 2

-----------------------------------------------------------------------------
(* Generic helpers *)

None == <<>>
Some(v) == <<v>>

SeqToSet(s) == {s[i] : i \in 1..Len(s)}

RECURSIVE FlattenSeq(_)
FlattenSeq(ss) == IF ss = <<>> THEN <<>> ELSE Head(ss) \o FlattenSeq(Tail(ss))

RECURSIVE SumSeq(_)
SumSeq(s) == IF s = <<>> THEN 0 ELSE Head(s) + SumSeq(Tail(s))

RECURSIVE MaxSeq(_, _)
MaxSeq(s, default) ==
    IF s = <<>> THEN default
    ELSE LET m == MaxSeq(Tail(s), Head(s))
         IN  IF Head(s) >= m THEN Head(s) ELSE m

RECURSIVE Dedup(_)
Dedup(s) ==
    IF s = <<>> THEN <<>>
    ELSE LET init == Dedup(SubSeq(s, 1, Len(s) - 1))
         IN  IF s[Len(s)] \in SeqToSet(init) THEN init ELSE Append(init, s[Len(s)])

(* Python truthiness of an Optional[str], Optional[List] and Optional[int] *)
TruthyStr(opt) == opt # None /\ opt[1] # ""
TruthyList(opt) == opt # None /\ opt[1] # <<>>
TruthyInt(opt) == opt # None /\ opt[1] # 0

(* int(x) of a float x = n / WeightScale: truncation toward zero *)
IntOfFloat(n) == IF n >= 0 THEN n \div WeightScale ELSE -((-n) \div WeightScale)

(* float(k) of an int k *)
FloatOfInt(k) == k * WeightScale

(* A dict built by {key(e): e for e in seq}: the last entry of a key wins *)
LastIndexOf(keys, key) ==
    LET hits == {i \in 1..Len(keys) : keys[i] = key}
    IN  IF hits = {} THEN 0 ELSE CHOOSE i \in hits : \A j \in hits : j <= i

IdsOf(seq) == [i \in 1..Len(seq) |-> seq[i].id]

SectionIdsOf(seq) == [i \in 1..Len(seq) |-> seq[i].section_id]

-----------------------------------------------------------------------------
(* _timeslot_days, _has_required_features, _build_crosslist_totals *)

timeslot_days(timeslots) ==
    [tid \in {timeslots[i].id : i \in 1..Len(timeslots)} |->
        timeslots[LastIndexOf(IdsOf(timeslots), tid)].day]

has_required_features(room, required) ==
    \A k \in 1..Len(required) : required[k] \in SeqToSet(room.features)

build_crosslist_totals(sections) ==
    [gid \in {sections[i].crosslist_group_id[1] :
                 i \in {j \in 1..Len(sections) : TruthyStr(sections[j].crosslist_group_id)}} |->
        SumSeq([i \in 1..Len(sections) |->
                  IF sections[i].crosslist_group_id = Some(gid)
                  THEN sections[i].expected_enrollment ELSE 0])]

(* dict.get(key, default) *)
DictGet(dict, key, default) == IF key \in DOMAIN dict THEN dict[key] ELSE default

-----------------------------------------------------------------------------
(* _validate_crosslist_capacity *)

(* Faulty variant: a group that fills the largest room exactly is reported *)
validate_crosslist_capacity_AtCapacity(crosslists, sections, rooms) ==
    LET max_room_capacity == MaxSeq([i \in 1..Len(rooms) |-> rooms[i].capacity], 0)
        total_by_group == build_crosslist_totals(sections)
        ErrorOf(group) ==
            LET total == DictGet(total_by_group, group.id, 0)
            IN  IF total >= max_room_capacity
                THEN << [code |-> "crosslist_capacity", subject |-> group.id,
                         detail |-> <<total, max_room_capacity>>] >>
                ELSE <<>>
    IN  FlattenSeq([i \in 1..Len(crosslists) |-> ErrorOf(crosslists[i])])

validate_crosslist_capacity(crosslists, sections, rooms) ==
    LET max_room_capacity == MaxSeq([i \in 1..Len(rooms) |-> rooms[i].capacity], 0)
        total_by_group == build_crosslist_totals(sections)
        ErrorOf(group) ==
            LET total == DictGet(total_by_group, group.id, 0)
            IN  IF total > max_room_capacity
                THEN << [code |-> "crosslist_capacity", subject |-> group.id,
                         detail |-> <<total, max_room_capacity>>] >>
                ELSE <<>>
    IN  FlattenSeq([i \in 1..Len(crosslists) |-> ErrorOf(crosslists[i])])

-----------------------------------------------------------------------------
(* _build_options *)

NoFlags ==
    [ignore_blocked_times |-> FALSE, ignore_locks |-> FALSE,
     ignore_room_capacity |-> FALSE, ignore_room_features |-> FALSE,
     ignore_crosslist_capacity |-> FALSE]

pattern_by_id(inp, pattern_id) ==
    LET k == LastIndexOf(IdsOf(inp.meeting_patterns), pattern_id)
    IN  IF k = 0 THEN None ELSE Some(inp.meeting_patterns[k])

(* Faulty variant: the first lock of a section is kept *)
locked_by_section_FirstLock(inp, flags, section_id) ==
    IF flags.ignore_locks THEN None
    ELSE LET hits == {i \in 1..Len(inp.locked_assignments) :
                        inp.locked_assignments[i].section_id = section_id}
         IN  IF hits = {} THEN None
             ELSE Some(inp.locked_assignments[CHOOSE i \in hits : \A j \in hits : i <= j])

locked_by_section(inp, flags, section_id) ==
    IF flags.ignore_locks THEN None
    ELSE LET k == LastIndexOf(SectionIdsOf(inp.locked_assignments), section_id)
         IN  IF k = 0 THEN None ELSE Some(inp.locked_assignments[k])

(* Faulty variant: only the first timeslot of a blocked time is taken *)
blocked_times_global_FirstSlot(inp, flags) ==
    {inp.blocked_times[i].timeslot_ids[1] :
        i \in {j \in 1..Len(inp.blocked_times) :
                 /\ inp.blocked_times[j].scope = "global" /\ ~flags.ignore_blocked_times
                 /\ inp.blocked_times[j].timeslot_ids # <<>>}}

blocked_times_global(inp, flags) ==
    UNION {SeqToSet(inp.blocked_times[i].timeslot_ids) :
             i \in {j \in 1..Len(inp.blocked_times) :
                      inp.blocked_times[j].scope = "global" /\ ~flags.ignore_blocked_times}}

(* Faulty variant: the cross-list total is not applied *)
available_rooms_OwnEnrollment(inp, flags, section) ==
    SelectSeq(inp.rooms, LAMBDA room :
        /\ ~(~flags.ignore_room_capacity /\ room.capacity < section.expected_enrollment)
        /\ ~(~flags.ignore_room_features
               /\ ~has_required_features(room, section.room_requirements)))

available_rooms(inp, flags, section) ==
    LET fits == SelectSeq(inp.rooms, LAMBDA room :
                    /\ ~(~flags.ignore_room_capacity
                           /\ room.capacity < section.expected_enrollment)
                    /\ ~(~flags.ignore_room_features
                           /\ ~has_required_features(room, section.room_requirements)))
    IN  IF TruthyStr(section.crosslist_group_id)
           /\ ~flags.ignore_crosslist_capacity /\ ~flags.ignore_room_capacity
        THEN LET required_capacity ==
                    DictGet(build_crosslist_totals(inp.sections),
                            section.crosslist_group_id[1], 0)
             IN  SelectSeq(fits, LAMBDA room : room.capacity >= required_capacity)
        ELSE fits

section_options(inp, flags, section) ==
    LET lock == locked_by_section(inp, flags, section.id)
        blocked == blocked_times_global(inp, flags)
        rooms == available_rooms(inp, flags, section)
        ForRoom(pattern_id, timeslot_set, room) ==
            IF lock # None /\ TruthyStr(lock[1].fixed_room) /\ room.id # lock[1].fixed_room[1]
            THEN <<>>
            ELSE << [pattern_id |-> pattern_id, timeslot_set |-> timeslot_set,
                     room_id |-> room.id,
                     room_waste |-> room.capacity - section.expected_enrollment] >>
        ForSet(pattern_id, timeslot_set) ==
            IF \E k \in 1..Len(timeslot_set) : timeslot_set[k] \in blocked
            THEN <<>>
            ELSE IF lock # None /\ TruthyList(lock[1].fixed_timeslot_set)
                    /\ SeqToSet(lock[1].fixed_timeslot_set[1]) # SeqToSet(timeslot_set)
            THEN <<>>
            ELSE FlattenSeq([r \in 1..Len(rooms) |-> ForRoom(pattern_id, timeslot_set, rooms[r])])
        ForPattern(pattern_id) ==
            LET pattern == pattern_by_id(inp, pattern_id)
            IN  IF pattern = None THEN <<>>
                ELSE FlattenSeq([k \in 1..Len(pattern[1].compatible_timeslot_sets) |->
                                   ForSet(pattern_id, pattern[1].compatible_timeslot_sets[k])])
    IN  FlattenSeq([p \in 1..Len(section.allowed_meeting_patterns) |->
                      ForPattern(section.allowed_meeting_patterns[p])])

SectionIds(inp) == {inp.sections[i].id : i \in 1..Len(inp.sections)}

(* sections_by_id: the last section of an id *)
sections_by_id(inp, section_id) ==
    inp.sections[LastIndexOf(IdsOf(inp.sections), section_id)]

build_options(inp, flags) ==
    LET per_section == [i \in 1..Len(inp.sections) |->
                           section_options(inp, flags, inp.sections[i])]
    IN  [options_by_section |->
            [sid \in SectionIds(inp) |->
                per_section[LastIndexOf(IdsOf(inp.sections), sid)]],
         errors |->
            FlattenSeq([i \in 1..Len(inp.sections) |->
                IF per_section[i] = <<>>
                THEN << [code |-> "no_feasible_options", subject |-> inp.sections[i].id,
                         detail |-> <<>>] >>
                ELSE <<>>])]

-----------------------------------------------------------------------------
(* The 0/1 model of _solve_schedule and _check_feasible.  A candidate value of *)
(* the option variables that meets "sum(section_vars) == 1" for every section  *)
(* is a selection: one option index per section id.                            *)

MaxOptions(options) ==
    LET lens == {Len(options[sid]) : sid \in DOMAIN options}
    IN  IF lens = {} THEN 0 ELSE CHOOSE n \in lens : \A m \in lens : m <= n

one_per_section(options) ==
    {sel \in [DOMAIN options -> 1..MaxOptions(options)] :
        \A sid \in DOMAIN options : sel[sid] <= Len(options[sid])}

Chosen(options, sel, sid) == options[sid][sel[sid]]

Touches(option, timeslot_id) == timeslot_id \in SeqToSet(option.timeslot_set)

crosslist_roomshare(inp) ==
    {inp.crosslist_groups[i].id :
        i \in {j \in 1..Len(inp.crosslist_groups) : inp.crosslist_groups[j].require_same_room}}

(* Faulty variant: the key is the group id whatever the group's require_same_room *)
section_to_roomshare_group_AnyGroup(inp, sid) ==
    LET section == sections_by_id(inp, sid)
    IN  IF section.crosslist_group_id # None
        THEN <<"group", section.crosslist_group_id[1]>>
        ELSE <<"sec", sid>>

(* Faulty variant: every section has a key of its own *)
section_to_roomshare_group_PerSection(inp, sid) == <<"sec", sid>>

section_to_roomshare_group(inp, sid) ==
    LET section == sections_by_id(inp, sid)
    IN  IF section.crosslist_group_id # None
           /\ section.crosslist_group_id[1] \in crosslist_roomshare(inp)
        THEN <<"group", section.crosslist_group_id[1]>>
        ELSE <<"sec", sid>>

(* Room usage in _solve_schedule: one roomshare key per (room, timeslot) *)
room_usage_roomshare(inp, options, sel) ==
    \A r \in 1..Len(inp.rooms), t \in 1..Len(inp.timeslots) :
        Cardinality({section_to_roomshare_group(inp, sid) :
            sid \in {s \in DOMAIN options :
                        /\ Chosen(options, sel, s).room_id = inp.rooms[r].id
                        /\ Touches(Chosen(options, sel, s), inp.timeslots[t].id)}}) <= 1

(* Room usage in _check_feasible: one option per (room, timeslot) *)
room_usage_plain(inp, options, sel) ==
    \A r \in 1..Len(inp.rooms), t \in 1..Len(inp.timeslots) :
        Cardinality({s \in DOMAIN options :
                        /\ Chosen(options, sel, s).room_id = inp.rooms[r].id
                        /\ Touches(Chosen(options, sel, s), inp.timeslots[t].id)}) <= 1

(* Faulty variant: an option counts at its first timeslot only *)
instructor_nonoverlap_FirstSlot(inp, options, sel) ==
    \A i \in 1..Len(inp.instructors), t \in 1..Len(inp.timeslots) :
        Cardinality({s \in DOMAIN options :
                        /\ sections_by_id(inp, s).instructor_id = inp.instructors[i].id
                        /\ Chosen(options, sel, s).timeslot_set # <<>>
                        /\ Chosen(options, sel, s).timeslot_set[1] = inp.timeslots[t].id}) <= 1

instructor_nonoverlap(inp, options, sel) ==
    \A i \in 1..Len(inp.instructors), t \in 1..Len(inp.timeslots) :
        Cardinality({s \in DOMAIN options :
                        /\ sections_by_id(inp, s).instructor_id = inp.instructors[i].id
                        /\ Touches(Chosen(options, sel, s), inp.timeslots[t].id)}) <= 1

(* Faulty variant: the first timeslot of the input is skipped *)
no_overlap_groups_SkipFirstSlot(inp, options, sel) ==
    \A g \in 1..Len(inp.no_overlap_groups), t \in 2..Len(inp.timeslots) :
        LET members == inp.no_overlap_groups[g].member_section_ids
        IN  Cardinality({k \in 1..Len(members) :
                            /\ members[k] \in DOMAIN options
                            /\ Touches(Chosen(options, sel, members[k]),
                                       inp.timeslots[t].id)}) <= 1

(* sum(vars_for_slot) <= 1: a member listed twice counts twice *)
no_overlap_groups(inp, options, sel) ==
    \A g \in 1..Len(inp.no_overlap_groups), t \in 1..Len(inp.timeslots) :
        LET members == inp.no_overlap_groups[g].member_section_ids
        IN  Cardinality({k \in 1..Len(members) :
                            /\ members[k] \in DOMAIN options
                            /\ Touches(Chosen(options, sel, members[k]),
                                       inp.timeslots[t].id)}) <= 1

(* Faulty variant: the require_same_room branch is missing *)
crosslist_time_room_TimeOnly(inp, options, sel) ==
    \A g \in 1..Len(inp.crosslist_groups) :
        LET members == inp.crosslist_groups[g].member_section_ids
        IN  \A i \in 1..Len(members), j \in 1..Len(members) :
                (i < j /\ members[i] \in DOMAIN options /\ members[j] \in DOMAIN options) =>
                    Chosen(options, sel, members[i]).timeslot_set
                        = Chosen(options, sel, members[j]).timeslot_set

(* Faulty variant: only the groups that require the same room are constrained *)
crosslist_time_room_SameRoomGroups(inp, options, sel) ==
    \A g \in 1..Len(inp.crosslist_groups) :
        LET group == inp.crosslist_groups[g]
            members == group.member_section_ids
        IN  group.require_same_room =>
            \A i \in 1..Len(members), j \in 1..Len(members) :
                (i < j /\ members[i] \in DOMAIN options /\ members[j] \in DOMAIN options) =>
                    LET a == Chosen(options, sel, members[i])
                        b == Chosen(options, sel, members[j])
                    IN  /\ a.timeslot_set = b.timeslot_set
                        /\ a.room_id = b.room_id

crosslist_time_room(inp, options, sel) ==
    \A g \in 1..Len(inp.crosslist_groups) :
        LET group == inp.crosslist_groups[g]
            members == group.member_section_ids
        IN  \A i \in 1..Len(members), j \in 1..Len(members) :
                (i < j /\ members[i] \in DOMAIN options /\ members[j] \in DOMAIN options) =>
                    LET a == Chosen(options, sel, members[i])
                        b == Chosen(options, sel, members[j])
                    IN  /\ a.timeslot_set = b.timeslot_set
                        /\ ~(group.require_same_room /\ a.room_id # b.room_id)

-----------------------------------------------------------------------------
(* The objective of _solve_schedule *)

instructors_by_id(inp, instructor_id) ==
    LET k == LastIndexOf(IdsOf(inp.instructors), instructor_id)
    IN  IF k = 0 THEN None ELSE Some(inp.instructors[k])

unique_days(inp) == {inp.timeslots[t].day : t \in 1..Len(inp.timeslots)}

(* The instructors that get day variables and an excess variable *)
adjunct_tracked(inp) ==
    {inp.instructors[i].id :
        i \in {j \in 1..Len(inp.instructors) :
                 ~(inp.instructors[j].rank_type # "Adjunct"
                     \/ ~TruthyInt(inp.instructors[j].preferences.max_teaching_days))}}

OptionDays(inp, option) ==
    {timeslot_days(inp.timeslots)[option.timeslot_set[k]] : k \in 1..Len(option.timeslot_set)}

(* The days d with day_var[iid, d] >= var for a selected var *)
adjunct_days_forced(inp, options, sel, iid) ==
    UNION {OptionDays(inp, Chosen(options, sel, s)) :
             s \in {x \in DOMAIN options :
                      LET instructor == instructors_by_id(inp, sections_by_id(inp, x).instructor_id)
                      IN  /\ instructor # None
                          /\ instructor[1].rank_type = "Adjunct"
                          /\ instructor[1].id = iid}}

(* excess >= sum(day_vars) - max_days, excess >= 0: the least value a selection allows *)
adjunct_min_excess(inp, options, sel, iid) ==
    LET max_days == instructors_by_id(inp, iid)[1].preferences.max_teaching_days[1]
        over == Cardinality(adjunct_days_forced(inp, options, sel, iid)) - max_days
    IN  IF over > 0 THEN over ELSE 0

preferred_days_of(inp, sid) ==
    LET instructor == instructors_by_id(inp, sections_by_id(inp, sid).instructor_id)
    IN  IF instructor # None THEN instructor[1].preferences.preferred_days ELSE <<>>

preferred_patterns_of(inp, sid) ==
    LET instructor == instructors_by_id(inp, sections_by_id(inp, sid).instructor_id)
    IN  IF instructor # None THEN instructor[1].preferences.preferred_patterns ELSE <<>>

pref_day_penalty(inp, sid, option) ==
    IF OptionDays(inp, option) \cap SeqToSet(preferred_days_of(inp, sid)) # {}
    THEN 0 ELSE PREF_DAY_WEIGHT

pref_pattern_penalty(inp, sid, option) ==
    IF option.pattern_id \in SeqToSet(preferred_patterns_of(inp, sid))
    THEN 0 ELSE PREF_PATTERN_WEIGHT

(* Faulty variant: the pattern preference is left out of the coefficient *)
option_penalty_NoPattern(inp, sid, option) ==
    option.room_waste * ROOM_WASTE_WEIGHT + pref_day_penalty(inp, sid, option)

(* total_penalty, the coefficient of the option's variable *)
option_penalty(inp, sid, option) ==
    option.room_waste * ROOM_WASTE_WEIGHT
    + pref_day_penalty(inp, sid, option) + pref_pattern_penalty(inp, sid, option)

soft_lock_by_section(inp, sid) ==
    LET k == LastIndexOf(SectionIdsOf(inp.soft_locks), sid)
    IN  IF k = 0 THEN None ELSE Some(inp.soft_locks[k])

(* The float each mismatch adds: weight * SOFT_LOCK_BASE_WEIGHT, or nothing *)
soft_lock_time_miss(inp, sid, option) ==
    LET soft_lock == soft_lock_by_section(inp, sid)
    IN  IF soft_lock # None /\ TruthyList(soft_lock[1].preferred_timeslot_set)
           /\ SeqToSet(option.timeslot_set) # SeqToSet(soft_lock[1].preferred_timeslot_set[1])
        THEN soft_lock[1].weight * SOFT_LOCK_BASE_WEIGHT ELSE 0

soft_lock_room_miss(inp, sid, option) ==
    LET soft_lock == soft_lock_by_section(inp, sid)
    IN  IF soft_lock # None /\ TruthyStr(soft_lock[1].preferred_room)
           /\ option.room_id # soft_lock[1].preferred_room[1]
        THEN soft_lock[1].weight * SOFT_LOCK_BASE_WEIGHT ELSE 0

(* var * int(soft_penalty), added only if soft_penalty > 0 *)
soft_lock_coefficient(inp, sid, option) ==
    LET soft_penalty == soft_lock_time_miss(inp, sid, option) + soft_lock_room_miss(inp, sid, option)
    IN  IF soft_penalty > 0 THEN IntOfFloat(soft_penalty) ELSE 0

RECURSIVE SumOver(_, _)
SumOver(S, f) ==
    IF S = {} THEN 0
    ELSE LET x == CHOOSE y \in S : TRUE IN f[x] + SumOver(S \ {x}, f)

objective_value(inp, options, sel, excess) ==
    SumOver(DOMAIN options,
            [sid \in DOMAIN options |->
                option_penalty(inp, sid, Chosen(options, sel, sid))
                + soft_lock_coefficient(inp, sid, Chosen(options, sel, sid))])
    + SumOver(DOMAIN excess,
              [iid \in DOMAIN excess |-> excess[iid] * ADJUNCT_DAY_EXCESS_WEIGHT])

-----------------------------------------------------------------------------
(* solver.Solve(model) of _solve_schedule *)

hard_constraints(inp, options, sel) ==
    /\ room_usage_roomshare(inp, options, sel)
    /\ instructor_nonoverlap(inp, options, sel)
    /\ no_overlap_groups(inp, options, sel)
    /\ crosslist_time_room(inp, options, sel)

(* The values of the excess variables a selection admits: 0..len(unique_days), *)
(* at least the excess of the days it forces                                   *)
excess_values(inp, options, sel) ==
    {e \in [adjunct_tracked(inp) -> 0..Cardinality(unique_days(inp))] :
        \A iid \in adjunct_tracked(inp) : e[iid] >= adjunct_min_excess(inp, options, sel, iid)}

model_solutions(inp, options) ==
    UNION {{[x |-> sel, excess |-> e] : e \in excess_values(inp, options, sel)} :
             sel \in {s \in one_per_section(options) : hard_constraints(inp, options, s)}}

NoSolution == [status |-> "NONE", x |-> <<>>, excess |-> <<>>, objective |-> 0]

(* OPTIMAL: a solution of least objective.  FEASIBLE: the deadline           *)
(* (max_time_in_seconds = 5.0) ended the search with a solution in hand, any *)
(* solution of the model.  INFEASIBLE: the model has none.                   *)
solver_outcomes(inp, options) ==
    LET sols == model_solutions(inp, options)
        Obj(sol) == objective_value(inp, options, sol.x, sol.excess)
        Outcome(st, sol) ==
            [status |-> st, x |-> sol.x, excess |-> sol.excess, objective |-> Obj(sol)]
    IN  IF sols = {} THEN {[NoSolution EXCEPT !.status = "INFEASIBLE"]}
        ELSE {Outcome("OPTIMAL", sol) :
                 sol \in {s \in sols : \A o \in sols : Obj(s) <= Obj(o)}}
             \cup {Outcome("FEASIBLE", sol) : sol \in sols}

(* timeslot_day[slot_id] of an option's slot that is no timeslot of the input *)
unknown_timeslot(inp, options) ==
    \E sid \in DOMAIN options : \E k \in 1..Len(options[sid]) :
        \E n \in 1..Len(options[sid][k].timeslot_set) :
            options[sid][k].timeslot_set[n] \notin DOMAIN timeslot_days(inp.timeslots)

-----------------------------------------------------------------------------
(* _strip_section, _check_feasible, _diagnose_infeasibility *)

(* Faulty variant: the soft locks of the section are left in *)
strip_section_SoftLocksKept(inp, section_id) ==
    LET StripGroups(groups) ==
            SelectSeq([g \in 1..Len(groups) |->
                          [groups[g] EXCEPT !.member_section_ids =
                              SelectSeq(@, LAMBDA sid : sid # section_id)]],
                      LAMBDA group : Len(group.member_section_ids) >= 2)
    IN  [inp EXCEPT
            !.sections = SelectSeq(@, LAMBDA s : s.id # section_id),
            !.crosslist_groups = StripGroups(@),
            !.no_overlap_groups = StripGroups(@),
            !.locked_assignments = SelectSeq(@, LAMBDA lock : lock.section_id # section_id)]

strip_section(inp, section_id) ==
    LET StripGroups(groups) ==
            SelectSeq([g \in 1..Len(groups) |->
                          [groups[g] EXCEPT !.member_section_ids =
                              SelectSeq(@, LAMBDA sid : sid # section_id)]],
                      LAMBDA group : Len(group.member_section_ids) >= 2)
    IN  [inp EXCEPT
            !.sections = SelectSeq(@, LAMBDA s : s.id # section_id),
            !.crosslist_groups = StripGroups(@),
            !.no_overlap_groups = StripGroups(@),
            !.locked_assignments = SelectSeq(@, LAMBDA lock : lock.section_id # section_id),
            !.soft_locks = SelectSeq(@, LAMBDA lock : lock.section_id # section_id)]

(* Faulty variant: the instructor constraints are built whatever relax holds *)
check_feasible_InstructorsKept(inp, relax) ==
    IF "crosslist_capacity" \notin relax
       /\ validate_crosslist_capacity(inp.crosslist_groups, inp.sections, inp.rooms) # <<>>
    THEN FALSE
    ELSE LET built == build_options(inp,
                         [ignore_blocked_times |-> "blocked_times" \in relax,
                          ignore_locks |-> "locks" \in relax,
                          ignore_room_capacity |-> "room_capacity" \in relax,
                          ignore_room_features |-> "room_features" \in relax,
                          ignore_crosslist_capacity |-> "crosslist_capacity" \in relax])
             options == built.options_by_section
         IN  IF built.errors # <<>> THEN FALSE
             ELSE \E sel \in one_per_section(options) :
                    /\ "room_conflicts" \in relax \/ room_usage_plain(inp, options, sel)
                    /\ instructor_nonoverlap(inp, options, sel)
                    /\ "no_overlap_groups" \in relax \/ no_overlap_groups(inp, options, sel)
                    /\ "crosslist_time_room" \in relax \/ crosslist_time_room(inp, options, sel)

check_feasible(inp, relax) ==
    IF "crosslist_capacity" \notin relax
       /\ validate_crosslist_capacity(inp.crosslist_groups, inp.sections, inp.rooms) # <<>>
    THEN FALSE
    ELSE LET built == build_options(inp,
                         [ignore_blocked_times |-> "blocked_times" \in relax,
                          ignore_locks |-> "locks" \in relax,
                          ignore_room_capacity |-> "room_capacity" \in relax,
                          ignore_room_features |-> "room_features" \in relax,
                          ignore_crosslist_capacity |-> "crosslist_capacity" \in relax])
             options == built.options_by_section
         IN  IF built.errors # <<>> THEN FALSE
             ELSE \E sel \in one_per_section(options) :
                    /\ "room_conflicts" \in relax \/ room_usage_plain(inp, options, sel)
                    /\ "instructor_conflicts" \in relax \/ instructor_nonoverlap(inp, options, sel)
                    /\ "no_overlap_groups" \in relax \/ no_overlap_groups(inp, options, sel)
                    /\ "crosslist_time_room" \in relax \/ crosslist_time_room(inp, options, sel)

relax_candidates ==
    << <<"blocked_times", "Blocked time constraints">>,
       <<"locks", "Locked assignments">>,
       <<"room_capacity", "Room capacity">>,
       <<"room_features", "Room feature requirements">>,
       <<"crosslist_capacity", "Cross-list capacity">>,
       <<"room_conflicts", "Room overlap constraints">>,
       <<"instructor_conflicts", "Instructor overlap constraints">>,
       <<"no_overlap_groups", "No-overlap groups">>,
       <<"crosslist_time_room", "Cross-list time/room equality">> >>

(* Faulty variant: the relaxation loop stops at the first remedy it finds *)
diagnose_infeasibility_FirstRemedy(inp) ==
    LET labels == FlattenSeq([k \in 1..Len(relax_candidates) |->
                    IF check_feasible(inp, {relax_candidates[k][1]})
                    THEN <<relax_candidates[k][2]>> ELSE <<>>])
    IN  [feasible_if_relax |-> IF labels = <<>> THEN <<>> ELSE <<Head(labels)>>,
         feasible_if_remove_section |->
            FlattenSeq([i \in 1..Len(inp.sections) |->
                IF check_feasible(strip_section(inp, inp.sections[i].id), {})
                THEN <<inp.sections[i].id>> ELSE <<>>])]

diagnose_infeasibility(inp) ==
    [feasible_if_relax |->
        FlattenSeq([k \in 1..Len(relax_candidates) |->
            IF check_feasible(inp, {relax_candidates[k][1]})
            THEN <<relax_candidates[k][2]>> ELSE <<>>]),
     feasible_if_remove_section |->
        FlattenSeq([i \in 1..Len(inp.sections) |->
            IF check_feasible(strip_section(inp, inp.sections[i].id), {})
            THEN <<inp.sections[i].id>> ELSE <<>>])]

-----------------------------------------------------------------------------
(* The result of _solve_schedule *)

NoBreakdown ==
    [room_waste |-> 0, instructor_day_preference |-> 0,
     instructor_pattern_preference |-> 0, adjunct_day_excess |-> 0,
     soft_lock_time |-> 0, soft_lock_room |-> 0]

NoResult ==
    [status |-> "none", errors |-> <<>>, diagnostics |-> None, assignments |-> <<>>,
     total_score |-> 0, penalty_breakdown |-> NoBreakdown]

(* The keys of options_by_section in insertion order *)
section_order(inp) == Dedup([i \in 1..Len(inp.sections) |-> inp.sections[i].id])

(* The first index whose variable the solver set to 1 *)
chosen_idx(sol, sid) == sol.x[sid]

(* Faulty variant: "if not chosen_idx: continue" drops a section whose first option is chosen *)
assignments_of_SkipFirstOption(inp, options, sol) ==
    LET order == SelectSeq(section_order(inp), LAMBDA sid : chosen_idx(sol, sid) # 1)
    IN  [k \in 1..Len(order) |->
            LET option == options[order[k]][chosen_idx(sol, order[k])]
            IN  [section_id |-> order[k], meeting_pattern_id |-> option.pattern_id,
                 timeslot_ids |-> option.timeslot_set, room_id |-> option.room_id]]

assignments_of(inp, options, sol) ==
    LET order == section_order(inp)
    IN  [k \in 1..Len(order) |->
            LET option == options[order[k]][chosen_idx(sol, order[k])]
            IN  [section_id |-> order[k], meeting_pattern_id |-> option.pattern_id,
                 timeslot_ids |-> option.timeslot_set, room_id |-> option.room_id]]

penalty_breakdown_of(inp, options, sol) ==
    LET order == section_order(inp)
        Opt(k) == options[order[k]][chosen_idx(sol, order[k])]
    IN  [room_waste |->
            SumSeq([k \in 1..Len(order) |-> FloatOfInt(Opt(k).room_waste * ROOM_WASTE_WEIGHT)]),
         instructor_day_preference |->
            SumSeq([k \in 1..Len(order) |-> FloatOfInt(pref_day_penalty(inp, order[k], Opt(k)))]),
         instructor_pattern_preference |->
            SumSeq([k \in 1..Len(order) |->
                      FloatOfInt(pref_pattern_penalty(inp, order[k], Opt(k)))]),
         adjunct_day_excess |->
            SumOver(DOMAIN sol.excess,
                    [iid \in DOMAIN sol.excess |->
                        FloatOfInt(sol.excess[iid] * ADJUNCT_DAY_EXCESS_WEIGHT)]),
         soft_lock_time |->
            SumSeq([k \in 1..Len(order) |-> soft_lock_time_miss(inp, order[k], Opt(k))]),
         soft_lock_room |->
            SumSeq([k \in 1..Len(order) |-> soft_lock_room_miss(inp, order[k], Opt(k))])]

total_score_of(breakdown) ==
    breakdown.room_waste + breakdown.instructor_day_preference
    + breakdown.instructor_pattern_preference + breakdown.adjunct_day_excess
    + breakdown.soft_lock_time + breakdown.soft_lock_room

-----------------------------------------------------------------------------
(* The input families.  Every input has the two timeslots and the five      *)
(* meeting patterns below; PX names a timeslot that is none of the input,   *)
(* PE has an empty timeslot set.                                            *)

TIMESLOTS == << [id |-> "T1", day |-> "Mon"], [id |-> "T2", day |-> "Tue"] >>

PATTERNS ==
    << [id |-> "P1", compatible_timeslot_sets |-> << <<"T1">>, <<"T2">> >>],
       [id |-> "P2", compatible_timeslot_sets |-> << <<"T1", "T2">> >>],
       [id |-> "P3", compatible_timeslot_sets |-> << <<"T2", "T1">> >>],
       [id |-> "PX", compatible_timeslot_sets |-> << <<"T9">> >>],
       [id |-> "PE", compatible_timeslot_sets |-> << <<>> >>] >>

R1 == [id |-> "R1", capacity |-> MaxEnroll + 1, features |-> <<"proj">>]
R2 == [id |-> "R2", capacity |-> 2, features |-> <<>>]

MkSection(id, instructor_id, enrollment, patterns, requirements, gid) ==
    [id |-> id, instructor_id |-> instructor_id, expected_enrollment |-> enrollment,
     allowed_meeting_patterns |-> patterns, room_requirements |-> requirements,
     crosslist_group_id |-> gid]

MkInstructor(id, rank, days, patterns, max_days) ==
    [id |-> id, rank_type |-> rank,
     preferences |-> [preferred_days |-> days, preferred_patterns |-> patterns,
                      max_teaching_days |-> max_days]]

PlainInstructors ==
    << MkInstructor("I1", "Tenured", <<>>, <<>>, None),
       MkInstructor("I2", "Tenured", <<>>, <<>>, None) >>

MkCrossList(id, members, same_room) ==
    [id |-> id, member_section_ids |-> members, require_same_room |-> same_room]

MkInput(sections, instructors, rooms, crosslists, no_overlaps, blocked, locks, soft) ==
    [sections |-> sections, instructors |-> instructors, rooms |-> rooms,
     timeslots |-> TIMESLOTS, meeting_patterns |-> PATTERNS,
     crosslist_groups |-> crosslists, no_overlap_groups |-> no_overlaps,
     blocked_times |-> blocked, locked_assignments |-> locks, soft_locks |-> soft]

MaybeGroup == {None, Some("G1")}

(* Hard constraints: instructors (I9 is no instructor of the input), cross-list *)
(* groups whose member list may differ from the sections' crosslist_group_id,   *)
(* a no-overlap group, an optional third section.                               *)
ConflictInputs ==
    {MkInput(<<MkSection("S1", ins[1], 1, pat1, req1, gid1),
               MkSection("S2", ins[2], 1, pat2, <<>>, gid2)>> \o third,
             PlainInstructors, <<R1, R2>>, groups, novl, <<>>, <<>>, <<>>) :
        ins \in {<<"I1", "I1">>, <<"I1", "I2">>, <<"I9", "I9">>},
        pat1 \in {<<"P1">>, <<"P1", "P2">>},
        pat2 \in {<<"P1">>, <<"P2">>, <<"P3">>},
        req1 \in {<<>>, <<"proj">>},
        gid1 \in MaybeGroup, gid2 \in MaybeGroup,
        groups \in {<<>>, <<MkCrossList("G1", <<"S1", "S2">>, TRUE)>>,
                    <<MkCrossList("G1", <<"S1", "S2">>, FALSE)>>,
                    <<MkCrossList("G1", <<"S1", "S9">>, TRUE)>>},
        novl \in {<<>>, <<[id |-> "N1", member_section_ids |-> <<"S1", "S2">>]>>},
        third \in {<<>>, <<MkSection("S3", "I2", 1, <<"P1">>, <<>>, None)>>}}

(* Capacity and features: enrollments, requirements, rooms, two groups *)
CapacityInputs ==
    {MkInput(<<MkSection("S1", "I1", e1, <<"P1">>, <<>>, gid1),
               MkSection("S2", "I2", e2, <<"P1">>, req2, gid2)>>,
             PlainInstructors, rooms, groups, <<>>, <<>>, <<>>, <<>>) :
        e1 \in 1..MaxEnroll, e2 \in 1..MaxEnroll,
        req2 \in {<<>>, <<"proj">>},
        gid1 \in MaybeGroup \cup {Some("G2")}, gid2 \in MaybeGroup \cup {Some("G2")},
        rooms \in {<<R1, R2>>, <<R2>>, <<>>},
        groups \in {<<>>, <<MkCrossList("G1", <<"S1", "S2">>, TRUE)>>,
                    <<MkCrossList("G1", <<"S1">>, FALSE)>>,
                    <<MkCrossList("G2", <<"S2">>, FALSE),
                      MkCrossList("G1", <<"S1", "S2">>, FALSE)>>}}

(* Locks and blocked times: up to two locks on S1 *)
LockChoices ==
    {[section_id |-> "S1", fixed_timeslot_set |-> ts, fixed_room |-> room] :
        ts \in {None, Some(<<"T1">>), Some(<<"T2", "T1">>)},
        room \in {None, Some("R1"), Some("R2")}}

LockInputs ==
    {MkInput(<<MkSection("S1", "I1", 1, pat1, <<>>, None),
               MkSection("S2", "I2", 1, <<"P1">>, <<>>, None)>>,
             PlainInstructors, <<R1, R2>>, <<>>, <<>>, blocked, locks, <<>>) :
        pat1 \in {<<"P1", "P2">>, <<"P1", "PX">>},
        blocked \in {<<>>, <<[scope |-> "global", timeslot_ids |-> <<"T1">>]>>,
                     <<[scope |-> "instructor", timeslot_ids |-> <<"T1">>]>>,
                     <<[scope |-> "global", timeslot_ids |-> <<"T1", "T2">>]>>},
        locks \in {<<>>} \cup {<<a>> : a \in LockChoices}
                  \cup {<<a, b>> : a \in LockChoices, b \in LockChoices}}

(* Objective: preferences, adjunct day limits, one soft lock on S1 *)
SoftLockChoices ==
    {<<>>} \cup
    {<<[section_id |-> "S1", preferred_timeslot_set |-> ts, preferred_room |-> room,
        weight |-> w]>> :
        ts \in {None, Some(<<"T1">>), Some(<<"T2", "T1">>)},
        room \in {None, Some("R1"), Some("R2")},
        w \in 0..MaxWeightUnits}

ObjectiveInputs ==
    {MkInput(<<MkSection("S1", "I1", 1, <<"P1", "P2">>, <<>>, None),
               MkSection("S2", ins2, 2, <<"P1">>, <<"proj">>, None)>>,
             <<MkInstructor("I1", rank[1], prefs[1], prefs[2], rank[2]),
               MkInstructor("I2", "Tenured", <<>>, <<>>, None)>>,
             <<R1, R2>>, <<>>, <<>>, <<>>, <<>>, soft) :
        ins2 \in {"I1", "I2"},
        rank \in {<<"Tenured", Some(1)>>, <<"Adjunct", None>>, <<"Adjunct", Some(0)>>,
                  <<"Adjunct", Some(1)>>, <<"Adjunct", Some(-1)>>},
        prefs \in {<< <<>>, <<>> >>, << <<"Mon">>, <<"P1">> >>},
        soft \in SoftLockChoices}

(* Two cross-listed sections of 15 that must share the one room of 40 *)
CrossListScenarioInputs ==
    {MkInput(<<MkSection("S1", ins[1], 15, pat1, <<>>, Some("G1")),
               MkSection("S2", ins[2], 15, pat2, <<>>, Some("G1"))>>,
             PlainInstructors, <<[id |-> "R1", capacity |-> 40, features |-> <<>>]>>,
             <<MkCrossList("G1", <<"S1", "S2">>, TRUE)>>, novl, blocked, <<>>, <<>>) :
        ins \in {<<"I1", "I1">>, <<"I1", "I2">>, <<"I9", "I9">>},
        pat1 \in {<<"P1">>, <<"P2">>},
        pat2 \in {<<"P1">>, <<"P2">>, <<"P3">>, <<"P1", "P3">>},
        novl \in {<<>>, <<[id |-> "N1", member_section_ids |-> <<"S1", "S2">>]>>},
        blocked \in {<<>>, <<[scope |-> "global", timeslot_ids |-> <<"T1">>]>>}}

(* Two sections of one instructor id with a single timeslot set open to both *)
InstructorScenarioInputs ==
    {MkInput(<<MkSection("S1", ins, 1, <<"P2">>, <<>>, None),
               MkSection("S2", ins, e2, pat2, <<>>, None)>>,
             PlainInstructors, rooms, <<>>, novl, <<>>, <<>>, <<>>) :
        ins \in {"I1", "I9"},
        e2 \in {1, MaxEnroll},
        pat2 \in {<<"P2">>, <<"P3">>, <<"P2", "P3">>},
        rooms \in {<<R1, R2>>, <<R1>>},
        novl \in {<<>>, <<[id |-> "N1", member_section_ids |-> <<"S1", "S2">>]>>}}

(* Removal of a section: groups that lose a member, locks and soft locks of *)
(* several sections, an Adjunct whose max_teaching_days may be negative     *)
RemovalInputs ==
    {MkInput(<<MkSection("S1", "I1", 1, pat1, <<>>, None),
               MkSection("S2", "I2", 1, <<"P1">>, <<>>, None)>>,
             <<MkInstructor("I1", "Adjunct", <<>>, <<>>, max_days),
               MkInstructor("I2", "Tenured", <<>>, <<>>, None)>>,
             <<R1, R2>>, groups, novl, <<>>, locks, soft) :
        pat1 \in {<<"P1">>, <<"P2">>},
        max_days \in {Some(1), Some(-1), Some(-2)},
        groups \in {<<>>, <<MkCrossList("G1", <<"S1", "S2">>, FALSE)>>},
        novl \in {<<>>, <<[id |-> "N1", member_section_ids |-> <<"S1", "S2">>]>>,
                  <<[id |-> "N1", member_section_ids |-> <<"S1", "S2", "S9">>],
                    [id |-> "N2", member_section_ids |-> <<"S2">>]>>},
        locks \in {<<>>, <<[section_id |-> "S1", fixed_timeslot_set |-> None,
                            fixed_room |-> Some("R1")],
                          [section_id |-> "S2", fixed_timeslot_set |-> None,
                            fixed_room |-> Some("R2")]>>},
        soft \in {<<>>, <<[section_id |-> "S1", preferred_timeslot_set |-> None,
                           preferred_room |-> Some("R2"), weight |-> WeightScale],
                         [section_id |-> "S2", preferred_timeslot_set |-> None,
                           preferred_room |-> Some("R2"), weight |-> WeightScale]>>}}

(* Two sections of one instructor id in one cross-list group, with patterns *)
(* that may offer the empty timeslot set                                    *)
EmptySetInputs ==
    {MkInput(<<MkSection("S1", ins, 1, pat1, <<>>, gid),
               MkSection("S2", ins, 1, pat2, <<>>, gid)>>,
             PlainInstructors, <<R1, R2>>,
             <<MkCrossList("G1", <<"S1", "S2">>, same_room)>>, <<>>, <<>>, <<>>, <<>>) :
        ins \in {"I1", "I9"},
        pat1 \in {<<"P1">>, <<"PE">>, <<"P1", "PE">>},
        pat2 \in {<<"P1">>, <<"PE">>, <<"P1", "PE">>},
        gid \in MaybeGroup,
        same_room \in BOOLEAN}

Inputs ==
    ConflictInputs \cup CapacityInputs \cup LockInputs \cup ObjectiveInputs
        \cup CrossListScenarioInputs \cup InstructorScenarioInputs \cup RemovalInputs
        \cup EmptySetInputs

-----------------------------------------------------------------------------
(* One call of _solve_schedule *)

Init ==
    /\ input \in Inputs
    /\ pc = "start"
    /\ errors = <<>>
    /\ options_by_section = <<>>
    /\ solver = NoSolution
    /\ result = NoResult

(* Faulty variant: the option errors are put before the pre-validation errors *)
BuildOptions_OptionErrorsFirst ==
    /\ pc = "start"
    /\ LET built == build_options(input, NoFlags)
       IN  /\ errors' = built.errors \o validate_crosslist_capacity(input.crosslist_groups,
                                                                    input.sections, input.rooms)
           /\ options_by_section' = built.options_by_section
    /\ pc' = "built"
    /\ UNCHANGED <<input, solver, result>>

(* Lines 520-527: pre-validation, then option generation *)
BuildOptions ==
    /\ pc = "start"
    /\ LET built == build_options(input, NoFlags)
       IN  /\ errors' = validate_crosslist_capacity(input.crosslist_groups, input.sections,
                                                    input.rooms) \o built.errors
           /\ options_by_section' = built.options_by_section
    /\ pc' = "built"
    /\ UNCHANGED <<input, solver, result>>

(* Lines 528-529 *)
ReturnErrors ==
    /\ pc = "built"
    /\ errors # <<>>
    /\ result' = [NoResult EXCEPT !.status = "error", !.errors = errors]
    /\ pc' = "done"
    /\ UNCHANGED <<input, errors, options_by_section, solver>>

(* Line 663: building the objective raises KeyError *)
RaiseKeyError ==
    /\ pc = "built"
    /\ errors = <<>>
    /\ unknown_timeslot(input, options_by_section)
    /\ pc' = "raised"
    /\ UNCHANGED <<input, errors, options_by_section, solver, result>>

(* Lines 531-705: the model is built and solved *)
Solve ==
    /\ pc = "built"
    /\ errors = <<>>
    /\ ~unknown_timeslot(input, options_by_section)
    /\ solver' \in solver_outcomes(input, options_by_section)
    /\ pc' = "solved"
    /\ UNCHANGED <<input, errors, options_by_section, result>>

(* Lines 706-717 *)
Diagnose ==
    /\ pc = "solved"
    /\ solver.status \notin {"OPTIMAL", "FEASIBLE"}
    /\ result' = [NoResult EXCEPT
                    !.status = "error",
                    !.errors = << [code |-> "infeasible", subject |-> "", detail |-> <<>>] >>,
                    !.diagnostics = Some(diagnose_infeasibility(input))]
    /\ pc' = "done"
    /\ UNCHANGED <<input, errors, options_by_section, solver>>

(* Lines 719-798 *)
Assemble ==
    /\ pc = "solved"
    /\ solver.status \in {"OPTIMAL", "FEASIBLE"}
    /\ LET breakdown == penalty_breakdown_of(input, options_by_section, solver)
       IN  result' = [NoResult EXCEPT
                        !.status = "ok",
                        !.assignments = assignments_of(input, options_by_section, solver),
                        !.total_score = total_score_of(breakdown),
                        !.penalty_breakdown = breakdown]
    /\ pc' = "done"
    /\ UNCHANGED <<input, errors, options_by_section, solver>>

Next ==
    \/ BuildOptions
    \/ ReturnErrors
    \/ RaiseKeyError
    \/ Solve
    \/ Diagnose
    \/ Assemble

Spec == Init /\ [][Next]_vars

-----------------------------------------------------------------------------
(* Vocabulary of the properties: the input and the returned payload only *)

ReturnedOk == pc = "done" /\ result.status = "ok"

Assigned == 1..Len(result.assignments)

SlotsOf(a) == SeqToSet(a.timeslot_ids)

(* The sections of the input with an id *)
SectionsNamed(sid) == {i \in 1..Len(input.sections) : input.sections[i].id = sid}

(* The assignments of a section id *)
AssignmentsOf(sid) == {k \in Assigned : result.assignments[k].section_id = sid}

(* Two sections whose crosslist_group_id names one group of the input that *)
(* requires the same room                                                  *)
ShareSameRoomGroup(s1, s2) ==
    \E g \in 1..Len(input.crosslist_groups) :
        /\ input.crosslist_groups[g].require_same_room
        /\ s1.crosslist_group_id = Some(input.crosslist_groups[g].id)
        /\ s2.crosslist_group_id = Some(input.crosslist_groups[g].id)

(* Two assignments of different sections in one room at a common timeslot *)
CoOccupy(a, b) ==
    /\ a.section_id # b.section_id
    /\ a.room_id = b.room_id
    /\ SlotsOf(a) \cap SlotsOf(b) # {}

-----------------------------------------------------------------------------
C2_SameInstructorIdDisjoint ==
    ReturnedOk =>
        \A p \in 1..Len(input.sections), q \in 1..Len(input.sections) :
            (/\ input.sections[p].id # input.sections[q].id
             /\ input.sections[p].instructor_id = input.sections[q].instructor_id) =>
                \A i \in AssignmentsOf(input.sections[p].id),
                   j \in AssignmentsOf(input.sections[q].id) :
                    SlotsOf(result.assignments[i]) \cap SlotsOf(result.assignments[j]) = {}

InstructorIds == {input.instructors[i].id : i \in 1..Len(input.instructors)}

(* C2 amended: in every "ok" result, two distinct sections with the same   *)
(* instructor_id, naming an instructor of the input, have no timeslot in   *)
(* common.                                                                 *)
C2_ListedInstructorDisjoint ==
    ReturnedOk =>
        \A p \in 1..Len(input.sections), q \in 1..Len(input.sections) :
            (/\ input.sections[p].id # input.sections[q].id
             /\ input.sections[p].instructor_id = input.sections[q].instructor_id
             /\ input.sections[p].instructor_id \in InstructorIds) =>
                \A i \in AssignmentsOf(input.sections[p].id),
                   j \in AssignmentsOf(input.sections[q].id) :
                    SlotsOf(result.assignments[i]) \cap SlotsOf(result.assignments[j]) = {}

(* C2 witness: an "ok" result with two sections of one listed instructor,  *)
(* one of them on a two-slot set                                           *)
C2_Witness ==
    /\ ReturnedOk
    /\ \E p \in 1..Len(input.sections), q \in 1..Len(input.sections) :
          /\ input.sections[p].id # input.sections[q].id
          /\ input.sections[p].instructor_id = input.sections[q].instructor_id
          /\ input.sections[p].instructor_id \in InstructorIds
          /\ \E pid \in SeqToSet(input.sections[p].allowed_meeting_patterns) : pid # "P1"

(* C3: in every "ok" result, the member sections of a cross-list group     *)
(* have the same set of timeslot ids and, when the group requires the same *)
(* room, the same room.                                                    *)
C3_CrossListAligned ==
    ReturnedOk =>
        \A g \in 1..Len(input.crosslist_groups) :
            \A m1 \in SeqToSet(input.crosslist_groups[g].member_section_ids),
               m2 \in SeqToSet(input.crosslist_groups[g].member_section_ids) :
                \A i \in AssignmentsOf(m1), j \in AssignmentsOf(m2) :
                    /\ SlotsOf(result.assignments[i]) = SlotsOf(result.assignments[j])
                    /\ input.crosslist_groups[g].require_same_room =>
                          result.assignments[i].room_id = result.assignments[j].room_id

(* C3 witness: an "ok" result with a same-room group of two scheduled      *)
(* members, where two rooms were open to them                              *)
C3_Witness ==
    /\ ReturnedOk
    /\ \E g \in 1..Len(input.crosslist_groups) :
          /\ input.crosslist_groups[g].require_same_room
          /\ \E m1 \in SeqToSet(input.crosslist_groups[g].member_section_ids),
                m2 \in SeqToSet(input.crosslist_groups[g].member_section_ids) :
                /\ m1 # m2
                /\ AssignmentsOf(m1) # {} /\ AssignmentsOf(m2) # {}
                /\ \A m \in {m1, m2} :
                      {options_by_section[m][k].room_id :
                          k \in 1..Len(options_by_section[m])} = {"R1", "R2"}

(* C4: in every "ok" result, every section of the input has exactly one    *)
(* assignment.                                                             *)
C4_ExactlyOne ==
    ReturnedOk =>
        \A p \in 1..Len(input.sections) :
            Cardinality(AssignmentsOf(input.sections[p].id)) = 1

(* C4 witness: an "ok" result for three sections *)
C4_Witness ==
    /\ ReturnedOk
    /\ Len(input.sections) = 3
    /\ \E k \in Assigned : solver.x[result.assignments[k].section_id] = 1

(* C5 as stated: in every "ok" result, a section with a locked assignment  *)
(* has the timeslot set of each of its locks that gives one and the room   *)
(* of each of its locks that gives one.                                    *)
C5_EveryLockHonoured ==
    ReturnedOk =>
        \A l \in 1..Len(input.locked_assignments) :
            \A k \in AssignmentsOf(input.locked_assignments[l].section_id) :
                /\ input.locked_assignments[l].fixed_timeslot_set # None =>
                      SlotsOf(result.assignments[k])
                          = SeqToSet(input.locked_assignments[l].fixed_timeslot_set[1])
                /\ input.locked_assignments[l].fixed_room # None =>
                      result.assignments[k].room_id
                          = input.locked_assignments[l].fixed_room[1]

(* C5, what the code keeps: the last lock of a section is honoured *)
C5_LastLockHonoured ==
    ReturnedOk =>
        \A l \in 1..Len(input.locked_assignments) :
            (\A m \in 1..Len(input.locked_assignments) :
                input.locked_assignments[m].section_id
                    = input.locked_assignments[l].section_id => m <= l) =>
            \A k \in AssignmentsOf(input.locked_assignments[l].section_id) :
                /\ input.locked_assignments[l].fixed_timeslot_set # None =>
                      SlotsOf(result.assignments[k])
                          = SeqToSet(input.locked_assignments[l].fixed_timeslot_set[1])
                /\ input.locked_assignments[l].fixed_room # None =>
                      result.assignments[k].room_id
                          = input.locked_assignments[l].fixed_room[1]

(* The rooms of the input with an id *)
RoomsNamed(rid) == {r \in 1..Len(input.rooms) : input.rooms[r].id = rid}

(* The summed expected_enrollment of the sections whose crosslist_group_id is gid *)
GroupEnrollment(gid) ==
    SumSeq([i \in 1..Len(input.sections) |->
              IF input.sections[i].crosslist_group_id = Some(gid)
              THEN input.sections[i].expected_enrollment ELSE 0])

RoomSuits(room, section) ==
    /\ room.capacity >= section.expected_enrollment
    /\ SeqToSet(section.room_requirements) \subseteq SeqToSet(room.features)

(* C6: in every "ok" result, the room of an assignment holds the section's *)
(* expected_enrollment, has every required feature and, when the section   *)
(* names a cross-list group, holds the summed expected_enrollment of the   *)
(* sections naming that group.                                             *)
C6_CapacityAndFeatures ==
    ReturnedOk =>
        \A k \in Assigned :
            \A p \in SectionsNamed(result.assignments[k].section_id),
               r \in RoomsNamed(result.assignments[k].room_id) :
                /\ RoomSuits(input.rooms[r], input.sections[p])
                /\ input.sections[p].crosslist_group_id # None =>
                      input.rooms[r].capacity
                          >= GroupEnrollment(input.sections[p].crosslist_group_id[1])

(* C6 witness: an "ok" result with a cross-listed section for which a room *)
(* of the input suits the section alone but not its group                  *)
C6_Witness ==
    /\ ReturnedOk
    /\ \E k \in Assigned :
          \E p \in SectionsNamed(result.assignments[k].section_id) :
              /\ input.sections[p].crosslist_group_id # None
              /\ \E r \in 1..Len(input.rooms) :
                    /\ RoomSuits(input.rooms[r], input.sections[p])
                    /\ input.rooms[r].capacity
                          < GroupEnrollment(input.sections[p].crosslist_group_id[1])

GlobalBlocked ==
    {b \in 1..Len(input.blocked_times) : input.blocked_times[b].scope = "global"}

(* C7: in every "ok" result, no assignment contains a timeslot id of a     *)
(* BlockedTime whose scope is "global".                                    *)
C7_BlockedTimes ==
    ReturnedOk =>
        \A k \in Assigned, b \in GlobalBlocked :
            SlotsOf(result.assignments[k])
                \cap SeqToSet(input.blocked_times[b].timeslot_ids) = {}

(* C7 witness: an "ok" result under a global blocked time that takes a     *)
(* timeslot set away from a section                                        *)
C7_Witness ==
    /\ ReturnedOk
    /\ \E b \in GlobalBlocked, p \in 1..Len(input.sections), m \in 1..Len(input.meeting_patterns) :
          /\ input.meeting_patterns[m].id \in SeqToSet(input.sections[p].allowed_meeting_patterns)
          /\ \E n \in 1..Len(input.meeting_patterns[m].compatible_timeslot_sets) :
                SeqToSet(input.meeting_patterns[m].compatible_timeslot_sets[n])
                    \cap SeqToSet(input.blocked_times[b].timeslot_ids) # {}

(* C8: in every "ok" result, for every no-overlap group and timeslot id at *)
(* most one member section's assignment contains the timeslot id.          *)
C8_NoOverlapGroups ==
    ReturnedOk =>
        \A g \in 1..Len(input.no_overlap_groups) :
            \A t \in UNION {SlotsOf(result.assignments[k]) : k \in Assigned} :
                Cardinality({sid \in SeqToSet(input.no_overlap_groups[g].member_section_ids) :
                                \E k \in AssignmentsOf(sid) :
                                    t \in SlotsOf(result.assignments[k])}) <= 1

(* C8 witness: an "ok" result with a no-overlap group of two scheduled     *)
(* members that had a timeslot open to both                                *)
C8_Witness ==
    /\ ReturnedOk
    /\ \E g \in 1..Len(input.no_overlap_groups) :
          \E m1 \in SeqToSet(input.no_overlap_groups[g].member_section_ids),
             m2 \in SeqToSet(input.no_overlap_groups[g].member_section_ids) :
              /\ m1 # m2
              /\ AssignmentsOf(m1) # {} /\ AssignmentsOf(m2) # {}
              /\ \E i \in 1..Len(options_by_section[m1]), j \in 1..Len(options_by_section[m2]) :
                    SeqToSet(options_by_section[m1][i].timeslot_set)
                        \cap SeqToSet(options_by_section[m2][j].timeslot_set) # {}

(* C9 as stated: in every "ok" result, total_score is the sum of the       *)
(* penalty_breakdown values and is the objective value of the solver's     *)
(* model for the selected solution, whatever the soft-lock weights.        *)
C9_ScoreConsistency ==
    ReturnedOk =>
        /\ result.total_score
              = result.penalty_breakdown.room_waste
                + result.penalty_breakdown.instructor_day_preference
                + result.penalty_breakdown.instructor_pattern_preference
                + result.penalty_breakdown.adjunct_day_excess
                + result.penalty_breakdown.soft_lock_time
                + result.penalty_breakdown.soft_lock_room
        /\ result.total_score = solver.objective * WeightScale

-----------------------------------------------------------------------------
(* C10: a placement gives every section id a pattern, a timeslot tuple and *)
(* a room; its cost and its constraints are read off the input.            *)

Placement(pattern_id, timeslot_set, room_id) ==
    [pattern_id |-> pattern_id, timeslot_set |-> timeslot_set, room_id |-> room_id]

(* The placement the result reports *)
ReportedPlacement ==
    [sid \in {result.assignments[k].section_id : k \in Assigned} |->
        LET a == result.assignments[CHOOSE k \in Assigned : result.assignments[k].section_id = sid]
        IN  Placement(a.meeting_pattern_id, a.timeslot_ids, a.room_id)]

(* Every choice of one generated option per section *)
AlternativePlacements ==
    LET OptionsOf(sid) ==
            {Placement(options_by_section[sid][k].pattern_id,
                       options_by_section[sid][k].timeslot_set,
                       options_by_section[sid][k].room_id) :
                k \in 1..Len(options_by_section[sid])}
    IN  {pl \in [DOMAIN options_by_section ->
                    UNION {OptionsOf(sid) : sid \in DOMAIN options_by_section}] :
            \A sid \in DOMAIN pl : pl[sid] \in OptionsOf(sid)}

SectionOf(sid) == input.sections[CHOOSE i \in 1..Len(input.sections) : input.sections[i].id = sid]

RoomOf(rid) == input.rooms[CHOOSE r \in 1..Len(input.rooms) : input.rooms[r].id = rid]

DaysOf(timeslot_set) ==
    {input.timeslots[t].day :
        t \in {n \in 1..Len(input.timeslots) : input.timeslots[n].id \in SeqToSet(timeslot_set)}}

(* The instructors of the input with the id of the section's instructor_id *)
InstructorsOf(sid) ==
    {i \in 1..Len(input.instructors) : input.instructors[i].id = SectionOf(sid).instructor_id}

(* Adjunct instructors with a max_teaching_days other than 0 *)
LimitedAdjuncts ==
    {i \in 1..Len(input.instructors) :
        /\ input.instructors[i].rank_type = "Adjunct"
        /\ input.instructors[i].preferences.max_teaching_days # None
        /\ input.instructors[i].preferences.max_teaching_days[1] # 0}

DayExcess(pl, i) ==
    LET days == UNION {DaysOf(pl[sid].timeslot_set) :
                         sid \in {x \in DOMAIN pl : i \in InstructorsOf(x)}}
        over == Cardinality(days) - input.instructors[i].preferences.max_teaching_days[1]
    IN  IF over > 0 THEN over ELSE 0

(* The last soft lock of a section decides; its penalty enters the model   *)
(* as int(weight * mismatches) when positive                               *)
SoftLockCost(pl, sid) ==
    LET mine == {l \in 1..Len(input.soft_locks) : input.soft_locks[l].section_id = sid}
    IN  IF mine = {} THEN 0
        ELSE LET lock == input.soft_locks[CHOOSE l \in mine : \A m \in mine : m <= l]
                 misses ==
                    (IF lock.preferred_timeslot_set # None
                        /\ SeqToSet(lock.preferred_timeslot_set[1]) # SeqToSet(pl[sid].timeslot_set)
                     THEN 1 ELSE 0)
                    + (IF lock.preferred_room # None /\ lock.preferred_room[1] # pl[sid].room_id
                       THEN 1 ELSE 0)
             IN  IF lock.weight * misses > 0 THEN (lock.weight * misses) \div WeightScale ELSE 0

PlacementCost(pl) ==
    SumOver(DOMAIN pl,
        [sid \in DOMAIN pl |->
            (RoomOf(pl[sid].room_id).capacity - SectionOf(sid).expected_enrollment)
            + (IF \E i \in InstructorsOf(sid) :
                     DaysOf(pl[sid].timeslot_set)
                         \cap SeqToSet(input.instructors[i].preferences.preferred_days) # {}
               THEN 0 ELSE 10)
            + (IF \E i \in InstructorsOf(sid) :
                     pl[sid].pattern_id
                         \in SeqToSet(input.instructors[i].preferences.preferred_patterns)
               THEN 0 ELSE 5)
            + SoftLockCost(pl, sid)])
    + SumOver(LimitedAdjuncts, [i \in LimitedAdjuncts |-> 15 * DayExcess(pl, i)])

(* The hard constraints of the model, on a placement *)
PlacementAllowed(pl) ==
    /\ \A s1 \in DOMAIN pl, s2 \in DOMAIN pl :
          (/\ s1 # s2
           /\ pl[s1].room_id = pl[s2].room_id
           /\ SeqToSet(pl[s1].timeslot_set) \cap SeqToSet(pl[s2].timeslot_set) # {}) =>
              ShareSameRoomGroup(SectionOf(s1), SectionOf(s2))
    /\ \A s1 \in DOMAIN pl, s2 \in DOMAIN pl :
          (/\ s1 # s2
           /\ SectionOf(s1).instructor_id = SectionOf(s2).instructor_id
           /\ SectionOf(s1).instructor_id \in InstructorIds) =>
              SeqToSet(pl[s1].timeslot_set) \cap SeqToSet(pl[s2].timeslot_set) = {}
    /\ \A g \in 1..Len(input.no_overlap_groups) :
          LET members == input.no_overlap_groups[g].member_section_ids
          IN  \A i \in 1..Len(members), j \in 1..Len(members) :
                (i # j /\ members[i] \in DOMAIN pl /\ members[j] \in DOMAIN pl) =>
                    SeqToSet(pl[members[i]].timeslot_set)
                        \cap SeqToSet(pl[members[j]].timeslot_set) = {}
    /\ \A g \in 1..Len(input.crosslist_groups) :
          LET members == input.crosslist_groups[g].member_section_ids
          IN  \A i \in 1..Len(members), j \in 1..Len(members) :
                (i # j /\ members[i] \in DOMAIN pl /\ members[j] \in DOMAIN pl) =>
                    /\ pl[members[i]].timeslot_set = pl[members[j]].timeslot_set
                    /\ input.crosslist_groups[g].require_same_room =>
                          pl[members[i]].room_id = pl[members[j]].room_id
    /\ \A i \in LimitedAdjuncts :
          DayExcess(pl, i) <= Cardinality({input.timeslots[t].day : t \in 1..Len(input.timeslots)})

(* C10 as stated: in every "ok" result, no selection of one option per     *)
(* section that satisfies every hard constraint has a smaller total        *)
(* penalty than the chosen one.                                            *)
C10_Minimal ==
    ReturnedOk =>
        \A pl \in AlternativePlacements :
            PlacementAllowed(pl) => PlacementCost(pl) >= PlacementCost(ReportedPlacement)

(* C10 amended: in every "ok" result the chosen selection satisfies every  *)
(* hard constraint, and when the solver's status was OPTIMAL no selection  *)
(* of one option per section that satisfies every hard constraint has a    *)
(* smaller objective (room waste, day and pattern preference, adjunct day  *)
(* excess, soft-lock penalties as they enter the model).                   *)
C10_MinimalWhenOptimal ==
    ReturnedOk =>
        /\ PlacementAllowed(ReportedPlacement)
        /\ solver.status = "OPTIMAL" =>
              \A pl \in AlternativePlacements :
                  PlacementAllowed(pl) => PlacementCost(pl) >= PlacementCost(ReportedPlacement)

(* C10 witness: an "ok" result of status OPTIMAL for an input with a soft  *)
(* lock, where an allowed selection costs more than the chosen one         *)
C10_Witness ==
    /\ ReturnedOk
    /\ solver.status = "OPTIMAL"
    /\ input.soft_locks # <<>>
    /\ \E pl \in AlternativePlacements :
          PlacementAllowed(pl) /\ PlacementCost(pl) > PlacementCost(ReportedPlacement)

-----------------------------------------------------------------------------
(* C11: locks against global blocked times *)

(* The global blocked timeslot ids of the input *)
BlockedSlots == UNION {SeqToSet(input.blocked_times[b].timeslot_ids) : b \in GlobalBlocked}

(* A lock naming a section of the input with a fixed_timeslot_set that holds *)
(* a globally blocked timeslot                                               *)
PinsToBlocked(l) ==
    /\ SectionsNamed(input.locked_assignments[l].section_id) # {}
    /\ input.locked_assignments[l].fixed_timeslot_set # None
    /\ SeqToSet(input.locked_assignments[l].fixed_timeslot_set[1]) \cap BlockedSlots # {}

(* The last lock of its section *)
LockInForce(l) ==
    \A m \in 1..Len(input.locked_assignments) :
        input.locked_assignments[m].section_id = input.locked_assignments[l].section_id
            => m <= l

NoFeasibleOptionsFor(sid) ==
    \E e \in 1..Len(result.errors) :
        result.errors[e].code = "no_feasible_options" /\ result.errors[e].subject = sid

RelaxLabels ==
    IF result.diagnostics = None THEN {} ELSE SeqToSet(result.diagnostics[1].feasible_if_relax)

(* C11 as stated: when a lock pins a section to a fixed_timeslot_set that   *)
(* holds a globally blocked timeslot, the call returns status "error" with  *)
(* a no_feasible_options error for the section and with diagnostics whose   *)
(* feasible_if_relax lists "Blocked time constraints" or "Locked            *)
(* assignments".                                                            *)
C11_LockBlockDiagnosed ==
    \A l \in 1..Len(input.locked_assignments) :
        (pc \in {"done", "raised"} /\ PinsToBlocked(l)) =>
            /\ pc = "done"
            /\ result.status = "error"
            /\ NoFeasibleOptionsFor(input.locked_assignments[l].section_id)
            /\ result.diagnostics # None
            /\ RelaxLabels \cap {"Blocked time constraints", "Locked assignments"} # {}

(* C11 amended: when the lock in force for a section (the last lock naming  *)
(* it) pins it to a fixed_timeslot_set that holds a globally blocked        *)
(* timeslot, the call never reaches the solver and returns status "error"   *)
(* with a no_feasible_options error for the section and no diagnostics.     *)
C11_LockBlockRejected ==
    \A l \in 1..Len(input.locked_assignments) :
        (PinsToBlocked(l) /\ LockInForce(l)) =>
            /\ pc \in {"start", "built", "done"}
            /\ pc = "done" =>
                  /\ result.status = "error"
                  /\ NoFeasibleOptionsFor(input.locked_assignments[l].section_id)
                  /\ result.diagnostics = None

(* C11 witness: a returned call whose input has a lock in force on a        *)
(* blocked timeslot after an earlier lock of the section that is not        *)
C11_Witness ==
    /\ pc = "done"
    /\ \E l \in 1..Len(input.locked_assignments) :
          /\ PinsToBlocked(l) /\ LockInForce(l)
          /\ \E m \in 1..(l - 1) :
                /\ input.locked_assignments[m].section_id
                      = input.locked_assignments[l].section_id
                /\ ~PinsToBlocked(m)

-----------------------------------------------------------------------------
(* C12: validation errors end the call before the solver *)

MaxRoomCapacity == MaxSeq([r \in 1..Len(input.rooms) |-> input.rooms[r].capacity], 0)

(* One crosslist_capacity error per group over the largest room, in group order *)
CapacityErrors ==
    FlattenSeq([g \in 1..Len(input.crosslist_groups) |->
        IF GroupEnrollment(input.crosslist_groups[g].id) > MaxRoomCapacity
        THEN << [code |-> "crosslist_capacity", subject |-> input.crosslist_groups[g].id,
                 detail |-> <<GroupEnrollment(input.crosslist_groups[g].id), MaxRoomCapacity>>] >>
        ELSE <<>>])

(* One no_feasible_options error per section without an option, in section order *)
OptionErrors ==
    FlattenSeq([i \in 1..Len(input.sections) |->
        IF options_by_section[input.sections[i].id] = <<>>
        THEN << [code |-> "no_feasible_options", subject |-> input.sections[i].id,
                 detail |-> <<>>] >>
        ELSE <<>>])

(* C12: once pre-validation and option generation have run, if either gave *)
(* an error the solver is never invoked, and the call returns status       *)
(* "error" with exactly the crosslist_capacity errors in group order       *)
(* followed by the no_feasible_options errors in section order.            *)
C12_ErrorsShortCircuit ==
    (pc # "start" /\ CapacityErrors \o OptionErrors # <<>>) =>
        /\ pc \in {"built", "done"}
        /\ solver = NoSolution
        /\ pc = "done" =>
              /\ result.status = "error"
              /\ result.errors = CapacityErrors \o OptionErrors

(* C12 witness: a returned call with errors of both kinds *)
C12_Witness ==
    /\ pc = "done"
    /\ CapacityErrors # <<>> /\ OptionErrors # <<>>
    /\ result.errors = CapacityErrors \o OptionErrors

-----------------------------------------------------------------------------
(* C13: two cross-listed sections of 15 and one room of 40 *)

(* The input is two sections of expected_enrollment 15 that name one group, *)
(* the group lists both and requires the same room, and the rooms are one   *)
(* room of capacity 40                                                      *)
CrossListScenario ==
    /\ Len(input.sections) = 2
    /\ input.sections[1].id # input.sections[2].id
    /\ \A i \in 1..2 : input.sections[i].expected_enrollment = 15
    /\ Len(input.rooms) = 1 /\ input.rooms[1].capacity = 40
    /\ \E g \in 1..Len(input.crosslist_groups) :
          /\ input.crosslist_groups[g].require_same_room
          /\ \A i \in 1..2 :
                /\ input.sections[i].crosslist_group_id = Some(input.crosslist_groups[g].id)
                /\ input.sections[i].id
                      \in SeqToSet(input.crosslist_groups[g].member_section_ids)

BothAssignedAlike ==
    /\ Len(result.assignments) = 2
    /\ result.assignments[1].timeslot_ids = result.assignments[2].timeslot_ids
    /\ result.assignments[1].room_id = result.assignments[2].room_id

(* The timeslot tuples a section's known allowed patterns offer *)
TuplesAllowed(section) ==
    UNION {SeqToSet(input.meeting_patterns[m].compatible_timeslot_sets) :
             m \in {n \in 1..Len(input.meeting_patterns) :
                      input.meeting_patterns[n].id
                          \in SeqToSet(section.allowed_meeting_patterns)}}

(* Some timeslot tuple is allowed to both sections and holds no globally   *)
(* blocked timeslot                                                        *)
CommonOpenTuple ==
    \E ts \in TuplesAllowed(input.sections[1]) \cap TuplesAllowed(input.sections[2]) :
        SeqToSet(ts) \cap BlockedSlots = {}

(* There are no locks, the two sections have no listed instructor in       *)
(* common and no no-overlap group lists both                               *)
NothingKeepsApart ==
    /\ input.locked_assignments = <<>>
    /\ input.sections[1].instructor_id = input.sections[2].instructor_id
          => input.sections[1].instructor_id \notin InstructorIds
    /\ \A g \in 1..Len(input.no_overlap_groups) :
          ~({input.sections[1].id, input.sections[2].id}
                \subseteq SeqToSet(input.no_overlap_groups[g].member_section_ids))

-----------------------------------------------------------------------------
(* C14: two sections of one instructor and a single timeslot set *)

(* The input is two sections with one instructor_id, every timeslot tuple  *)
(* their allowed patterns offer holds the same non-empty set of timeslots, *)
(* and there are no locks, blocked times or cross-list groups              *)
InstructorScenario ==
    /\ Len(input.sections) = 2
    /\ input.sections[1].id # input.sections[2].id
    /\ input.sections[1].instructor_id = input.sections[2].instructor_id
    /\ \A i \in 1..2 : TuplesAllowed(input.sections[i]) # {}
    /\ \E ts \in TuplesAllowed(input.sections[1]) :
          /\ ts # <<>>
          /\ SeqToSet(ts) \subseteq {input.timeslots[t].id : t \in 1..Len(input.timeslots)}
          /\ \A i \in 1..2 : \A other \in TuplesAllowed(input.sections[i]) :
                SeqToSet(other) = SeqToSet(ts)
    /\ input.locked_assignments = <<>>
    /\ input.blocked_times = <<>>
    /\ input.crosslist_groups = <<>>
    /\ \A i \in 1..2 : input.sections[i].crosslist_group_id = None
    /\ \A i \in 1..2 : \E r \in 1..Len(input.rooms) : RoomSuits(input.rooms[r], input.sections[i])

InfeasibleReturned ==
    /\ pc = "done"
    /\ result.status = "error"
    /\ Len(result.errors) = 1 /\ result.errors[1].code = "infeasible"
    /\ result.diagnostics # None

RemoveSectionIds ==
    IF result.diagnostics = None THEN {}
    ELSE SeqToSet(result.diagnostics[1].feasible_if_remove_section)

InstructorConflictDiagnosed ==
    /\ InfeasibleReturned
    /\ "Instructor overlap constraints" \in RelaxLabels
    /\ \A i \in 1..2 : input.sections[i].id \in RemoveSectionIds

(* The instructor is listed, two different rooms suit the two sections and *)
(* no no-overlap group lists both                                          *)
OnlyTheInstructorConflicts ==
    /\ input.sections[1].instructor_id \in InstructorIds
    /\ \E r1 \in 1..Len(input.rooms), r2 \in 1..Len(input.rooms) :
          /\ input.rooms[r1].id # input.rooms[r2].id
          /\ RoomSuits(input.rooms[r1], input.sections[1])
          /\ RoomSuits(input.rooms[r2], input.sections[2])
    /\ \A g \in 1..Len(input.no_overlap_groups) :
          ~({input.sections[1].id, input.sections[2].id}
                \subseteq SeqToSet(input.no_overlap_groups[g].member_section_ids))

-----------------------------------------------------------------------------
(* C15: the payloads of a call *)

OkPayload ==
    /\ result.status = "ok"
    /\ result.errors = <<>> /\ result.diagnostics = None

ValidationPayload ==
    /\ result.status = "error"
    /\ result.errors # <<>>
    /\ \A e \in 1..Len(result.errors) :
          result.errors[e].code \in {"crosslist_capacity", "no_feasible_options"}
    /\ result.diagnostics = None /\ result.assignments = <<>>

InfeasiblePayload ==
    /\ InfeasibleReturned
    /\ result.assignments = <<>>

(* C15 as stated: no call raises; a finished call returns one of the three *)
(* payloads, and a solver status other than OPTIMAL and FEASIBLE is        *)
(* returned as the "infeasible" error with a diagnostics object.           *)
C15_NeverRaises ==
    /\ pc # "raised"
    /\ pc = "done" =>
          /\ OkPayload \/ ValidationPayload \/ InfeasiblePayload
          /\ solver.status \in {"INFEASIBLE", "UNKNOWN"} => InfeasiblePayload

-----------------------------------------------------------------------------
(* C16: what the diagnosis lists *)

RelaxKeyOrder ==
    <<"blocked_times", "locks", "room_capacity", "room_features", "crosslist_capacity",
      "room_conflicts", "instructor_conflicts", "no_overlap_groups", "crosslist_time_room">>

RelaxLabelOf ==
    [key \in SeqToSet(RelaxKeyOrder) |->
        CASE key = "blocked_times" -> "Blocked time constraints"
          [] key = "locks" -> "Locked assignments"
          [] key = "room_capacity" -> "Room capacity"
          [] key = "room_features" -> "Room feature requirements"
          [] key = "crosslist_capacity" -> "Cross-list capacity"
          [] key = "room_conflicts" -> "Room overlap constraints"
          [] key = "instructor_conflicts" -> "Instructor overlap constraints"
          [] key = "no_overlap_groups" -> "No-overlap groups"
          [] key = "crosslist_time_room" -> "Cross-list time/room equality"]

(* The keys whose relaxation alone makes the input feasible, in the fixed order *)
RemedyKeys == SelectSeq(RelaxKeyOrder, LAMBDA key : check_feasible(input, {key}))

(* The sections whose removal makes the input feasible, in input order *)
RemedySections ==
    SelectSeq(IdsOf(input.sections),
              LAMBDA sid : check_feasible(strip_section(input, sid), {}))

(* C16: the diagnostics of an "infeasible" error list, in the fixed order, *)
(* the label of exactly each key whose relaxation alone makes              *)
(* _check_feasible true, and, in section input order, the id of exactly    *)
(* each section for which _check_feasible of the stripped input is true.   *)
C16_DiagnosisExact ==
    InfeasibleReturned =>
        /\ result.diagnostics[1].feasible_if_relax
              = [k \in 1..Len(RemedyKeys) |-> RelaxLabelOf[RemedyKeys[k]]]
        /\ result.diagnostics[1].feasible_if_remove_section = RemedySections

(* C16 witness: diagnostics with two labels and with a section whose       *)
(* removal is a remedy next to one whose removal is not                    *)
C16_Witness ==
    /\ InfeasibleReturned
    /\ Len(result.diagnostics[1].feasible_if_relax) >= 2
    /\ RemoveSectionIds # {}
    /\ \E i \in 1..Len(input.sections) : input.sections[i].id \notin RemoveSectionIds

-----------------------------------------------------------------------------
(* C17: _check_feasible against the model of _solve_schedule *)

(* The hard-constraint model _solve_schedule built has a solution: one     *)
(* option per section under the room, instructor, no-overlap and           *)
(* cross-list constraints                                                  *)
SolveModelSatisfiable ==
    \E sel \in one_per_section(options_by_section) :
        hard_constraints(input, options_by_section, sel)

(* C17 as stated: whenever _solve_schedule has built its model,            *)
(* _check_feasible(input, {}) is true exactly when the hard constraints of *)
(* that model are satisfiable.                                             *)
C17_CheckFeasibleAgrees ==
    (pc \in {"solved", "done"} /\ errors = <<>>) =>
        (check_feasible(input, {}) <=> SolveModelSatisfiable)

-----------------------------------------------------------------------------
(* C18: the adjunct day excess of an optimal result *)

(* Adjunct instructors whose max_teaching_days is set *)
AdjunctsWithMaxDays ==
    {i \in 1..Len(input.instructors) :
        /\ input.instructors[i].rank_type = "Adjunct"
        /\ input.instructors[i].preferences.max_teaching_days # None}

(* C18 as stated: in an "ok" result of solver status OPTIMAL, where every  *)
(* Adjunct's set max_teaching_days M is non-negative, adjunct_day_excess   *)
(* is the sum over the Adjuncts with a set M of 15 * max(0, D - M), D the  *)
(* number of distinct days of the assignments of the instructor's          *)
(* sections; no other instructor contributes.                              *)
C18_AdjunctExcess ==
    (/\ ReturnedOk
     /\ solver.status = "OPTIMAL"
     /\ \A i \in AdjunctsWithMaxDays :
           input.instructors[i].preferences.max_teaching_days[1] >= 0) =>
        result.penalty_breakdown.adjunct_day_excess
            = WeightScale
                * SumOver(AdjunctsWithMaxDays,
                          [i \in AdjunctsWithMaxDays |-> 15 * DayExcess(ReportedPlacement, i)])

-----------------------------------------------------------------------------
(* C19: the soft-lock coefficient of an option *)

(* Truncation toward zero of a float of n / WeightScale *)
TruncTowardZero(n) == IF n >= 0 THEN n \div WeightScale ELSE -((-n) \div WeightScale)

(* The soft locks naming a section *)
SoftLocksOf(sid) == {l \in 1..Len(input.soft_locks) : input.soft_locks[l].section_id = sid}

(* trunc(weight) for a differing preferred_timeslot_set plus trunc(weight) *)
(* for a differing preferred_room                                          *)
TruncatedWeightPerMiss(lock, option) ==
    (IF lock.preferred_timeslot_set # None /\ lock.preferred_timeslot_set[1] # <<>>
        /\ SeqToSet(lock.preferred_timeslot_set[1]) # SeqToSet(option.timeslot_set)
     THEN TruncTowardZero(lock.weight) ELSE 0)
    + (IF lock.preferred_room # None /\ lock.preferred_room[1] # ""
          /\ lock.preferred_room[1] # option.room_id
       THEN TruncTowardZero(lock.weight) ELSE 0)

(* C19 as stated: once the objective is built, the coefficient the soft    *)
(* lock of a section adds to each of the section's options is              *)
(* trunc(weight) if the preferred timeslot set is set and differs, plus    *)
(* trunc(weight) if the preferred room is set and differs.                 *)
C19_TruncatedWeight ==
    (pc \in {"solved", "done"} /\ errors = <<>>) =>
        \A sid \in DOMAIN options_by_section :
            \A l \in SoftLocksOf(sid) :
                (\A m \in SoftLocksOf(sid) : m <= l) =>
                    \A k \in 1..Len(options_by_section[sid]) :
                        soft_lock_coefficient(input, sid, options_by_section[sid][k])
                            = TruncatedWeightPerMiss(input.soft_locks[l],
                                                     options_by_section[sid][k])

-----------------------------------------------------------------------------
(* C20: which groups the pre-validation reports *)

(* The summed expected_enrollment of the sections a group lists as members *)
MemberEnrollment(group) ==
    SumSeq([i \in 1..Len(input.sections) |->
              IF input.sections[i].id \in SeqToSet(group.member_section_ids)
              THEN input.sections[i].expected_enrollment ELSE 0])

MemberCapacityErrors ==
    FlattenSeq([g \in 1..Len(input.crosslist_groups) |->
        IF MemberEnrollment(input.crosslist_groups[g]) > MaxRoomCapacity
        THEN << [code |-> "crosslist_capacity", subject |-> input.crosslist_groups[g].id,
                 detail |-> <<MemberEnrollment(input.crosslist_groups[g]), MaxRoomCapacity>>] >>
        ELSE <<>>])

(* The crosslist_capacity errors the pre-validation gave *)
ValidationGave == SelectSeq(errors, LAMBDA e : e.code = "crosslist_capacity")

(* C20 as stated: the pre-validation gives, in group order, one            *)
(* crosslist_capacity error for exactly the groups whose listed members    *)
(* (member_section_ids) have a summed expected_enrollment over the largest *)
(* room capacity, 0 without rooms.                                         *)
C20_MemberTotals ==
    pc # "start" => ValidationGave = MemberCapacityErrors

(* C20 amended: the same, the total of a group being the summed            *)
(* expected_enrollment of the sections whose crosslist_group_id is the     *)
(* group's id.                                                             *)
C20_GroupIdTotals ==
    pc # "start" => ValidationGave = CapacityErrors

(* C20 witness: two groups reported, for an input whose member lists give  *)
(* other totals                                                            *)
C20_Witness ==
    /\ pc # "start"
    /\ Len(ValidationGave) = 2
    /\ MemberCapacityErrors # CapacityErrors

-----------------------------------------------------------------------------
(* C21: what _strip_section removes and what it leaves *)

(* A member list without a section id *)
MembersWithout(members, sid) == SelectSeq(members, LAMBDA m : m # sid)

(* The groups that keep two members or more, each without the section id *)
GroupsWithout(groups, sid) ==
    LET kept == SelectSeq(groups,
                    LAMBDA g : Len(MembersWithout(g.member_section_ids, sid)) >= 2)
    IN  [k \in 1..Len(kept) |->
            [kept[k] EXCEPT !.member_section_ids = MembersWithout(@, sid)]]

StrippedAsSpecified(sid) ==
    LET out == strip_section(input, sid)
    IN  /\ \A i \in 1..Len(out.sections) : out.sections[i].id # sid
        /\ out.sections = SelectSeq(input.sections, LAMBDA s : s.id # sid)
        /\ out.crosslist_groups = GroupsWithout(input.crosslist_groups, sid)
        /\ out.no_overlap_groups = GroupsWithout(input.no_overlap_groups, sid)
        /\ out.locked_assignments
              = SelectSeq(input.locked_assignments, LAMBDA l : l.section_id # sid)
        /\ out.soft_locks = SelectSeq(input.soft_locks, LAMBDA l : l.section_id # sid)
        /\ out.instructors = input.instructors
        /\ out.rooms = input.rooms
        /\ out.timeslots = input.timeslots
        /\ out.meeting_patterns = input.meeting_patterns
        /\ out.blocked_times = input.blocked_times
        /\ DOMAIN out = DOMAIN input

(* C21: for every section s of the input, _strip_section(input, s) has no  *)
(* section s, has every cross-list and no-overlap group without s in its   *)
(* member list and only the groups that keep 2 members or more, has no     *)
(* locked assignment or soft lock of s, and has the instructors, rooms,    *)
(* timeslots, meeting patterns, blocked times and the other sections,      *)
(* members and locks as they were; no step of the call changes the input.  *)
C21_StripFrame ==
    /\ [](\A i \in 1..Len(input.sections) : StrippedAsSpecified(input.sections[i].id))
    /\ [][input' = input]_vars

(* C21 witness: a diagnosis has stripped an input with locks and soft      *)
(* locks of two sections, a group that loses a member and is dropped and   *)
(* a group that loses a member and stays                                   *)
C21_Witness ==
    /\ InfeasibleReturned
    /\ Len(input.locked_assignments) = 2 /\ Len(input.soft_locks) = 2
    /\ \E i \in 1..Len(input.sections) :
          /\ Len(strip_section(input, input.sections[i].id).crosslist_groups)
                < Len(input.crosslist_groups)
          /\ \E g \in 1..Len(input.no_overlap_groups) :
                /\ input.sections[i].id
                      \in SeqToSet(input.no_overlap_groups[g].member_section_ids)
                /\ Len(input.no_overlap_groups[g].member_section_ids) = 3

-----------------------------------------------------------------------------
(* C22: the sections the diagnosis offers for removal *)

(* A call of _solve_schedule on an input returns status "ok": no           *)
(* validation error, no unknown timeslot and a model with a solution       *)
SolveReturnsOk(inp) ==
    LET built == build_options(inp, NoFlags)
    IN  /\ validate_crosslist_capacity(inp.crosslist_groups, inp.sections, inp.rooms) = <<>>
        /\ built.errors = <<>>
        /\ ~unknown_timeslot(inp, built.options_by_section)
        /\ model_solutions(inp, built.options_by_section) # {}

(* C22 as stated: when the call returns the "infeasible" error, for every  *)
(* section id in feasible_if_remove_section a call on the input stripped   *)
(* of that section returns status "ok".                                    *)
C22_RemovalIsRemedy ==
    InfeasibleReturned =>
        \A sid \in RemoveSectionIds : SolveReturnsOk(strip_section(input, sid))

-----------------------------------------------------------------------------
(* C23: cross-listed sections of one instructor *)

(* Two sections with different ids that one cross-list group lists in its  *)
(* member_section_ids and that have one instructor_id, listed in           *)
(* input.instructors                                                       *)
CrossListedWithOneInstructor(i, j) ==
    /\ input.sections[i].id # input.sections[j].id
    /\ input.sections[i].instructor_id = input.sections[j].instructor_id
    /\ input.sections[i].instructor_id \in InstructorIds
    /\ \E g \in 1..Len(input.crosslist_groups) :
          {input.sections[i].id, input.sections[j].id}
              \subseteq SeqToSet(input.crosslist_groups[g].member_section_ids)

(* The timeslot sets of the options generated for a section *)
SetsAvailable(sid) ==
    {options_by_section[sid][k].timeslot_set : k \in 1..Len(options_by_section[sid])}

(* Two such sections that have no empty timeslot set available *)
BoundToMeet(i, j) ==
    /\ CrossListedWithOneInstructor(i, j)
    /\ <<>> \notin SetsAvailable(input.sections[i].id) \cup SetsAvailable(input.sections[j].id)

(* C23: if two distinct sections are members of one cross-list group, have *)
(* the same instructor_id naming an instructor of the input, and every     *)
(* timeslot set available to them is non-empty, the call does not return   *)
(* status "ok".                                                            *)
C23_CrossListedSameInstructorNeverOk ==
    (/\ pc # "start"
     /\ \E i \in 1..Len(input.sections), j \in 1..Len(input.sections) : BoundToMeet(i, j))
    => ~ReturnedOk

(* C23 witness: the "infeasible" error for two such sections that have a   *)
(* timeslot set in common                                                  *)
C23_Witness ==
    /\ InfeasibleReturned
    /\ \E i \in 1..Len(input.sections), j \in 1..Len(input.sections) :
          /\ BoundToMeet(i, j)
          /\ SetsAvailable(input.sections[i].id) \cap SetsAvailable(input.sections[j].id) # {}

=============================================================================
